---- MODULE Spec2Model ----
(***************************************************************************)
(* A model of the Sequelize policy-storage adapter.                        *)
(*                                                                         *)
(* The repository holds two revisions of class SequelizeAdapter:           *)
(*   "tx"     src/src/adapter.ts: CasbinRule.buildRule, savePolicy inside  *)
(*            one transaction, removePolicy by all seven columns;          *)
(*   "perRow" src/unnamed/part_000: savePolicyLine, savePolicy as a        *)
(*            truncate followed by one save per rule, removePolicy by the  *)
(*            columns that were assigned.                                  *)
(* The variable impl fixes the revision a behaviour runs.                  *)
(*                                                                         *)
(* A string is a sequence of one-character strings, so that the join and   *)
(* the split of loadPolicy are computed and not assumed.  A column value   *)
(* is Null (SQL NULL) or <<s>> for the string s.  The table is a bag of    *)
(* rows: the auto-generated id is the only thing that tells two equal rows *)
(* apart, and no statement of the adapter reads it.                        *)
(***************************************************************************)
EXTENDS Bags, FiniteSets, Integers, Sequences, TLC

VARIABLES
    impl,        \* "tx" or "perRow": the revision of the adapter
    store,       \* the committed rows of table casbin_rules (a bag)
    lastOp,      \* the last call a caller made and how it ended
    prev,        \* the committed rows when that call started
    lastDeleted, \* the number of rows the last destroy deleted
    addSnap,     \* the rows before the addPolicy that the last call or the one before it made
    svPc,        \* where savePolicy stands
    svModel,     \* the model handed to savePolicy
    svLines,     \* perRow: the rules still to be saved
    svResult,    \* what savePolicy gave its caller: "none", "true", "error"
    txState,     \* the transaction of savePolicy
    txWork,      \* the rows as the open transaction sees them
    old,         \* the committed rows when savePolicy was called
    observed,    \* what the last loadPolicy of another caller put into its fresh model
    life,        \* the calls made on the adapter: "new", "unopened", "open", "closed"
    option,      \* what the constructor was given: "none", "options", "instance"
    isOwnSequelizeInstance, \* the field of that name
    connOpen,    \* the Sequelize connection of the adapter is open
    modelInit,   \* CasbinRule has been initialised on the connection
    cPc,         \* the codec run: "input", "encoded", "saved", "decoded"
    cIn,         \* the ptype and rule the codec run starts from
    cRec,        \* the line built from cIn
    cOut,        \* the ptype and rule loaded back
    sv2Pc,       \* a second caller's savePolicy: where it stands
    sv2Model,    \* the model handed to it
    sv2Lines,    \* perRow: its rules still to be saved
    sv2Result,   \* what it gave its caller
    tx2State,    \* its transaction
    tx2Work      \* the rows as its transaction sees them

lifeVars == <<life, option, isOwnSequelizeInstance, connOpen, modelInit>>
codecVars == <<cPc, cIn, cRec, cOut>>
raceVars == <<sv2Pc, sv2Model, sv2Lines, sv2Result, tx2State, tx2Work>>

vars == <<impl, store, lastOp, prev, lastDeleted, addSnap, svPc, svModel, svLines,
          svResult, txState, txWork, old, observed, lifeVars, codecVars, raceVars>>

----------------------------------------------------------------------------
(* Bounds and input sets *)

NumSlots == 6      \* the columns v0..v5
MaxArgLen == 1     \* the longest rule handed to addPolicy and removePolicy
MaxStore == 2      \* the most rows addPolicy lets the table grow to
MaxOld == 1        \* the most rows in the table when savePolicy is called
MaxModelRules == 2 \* the most rules in the model handed to savePolicy
MaxRuleLen == 2    \* the longest rule in that model
MaxCodecLen == 7   \* the longest rule a followed codec run starts from
MaxRaceRules == 1  \* the most rules in each model of two racing savePolicy calls

EmptyStr == <<>>
ParamVals == {EmptyStr, <<"a">>}
PtypeP == <<"p">>
PtypeG == <<"g">>
Ptypes == {PtypeP, PtypeG}
Impls == {"tx", "perRow"}

SeqsUpTo(S, n) == UNION {[1..k -> S] : k \in 0..n}

Rules == SeqsUpTo(ParamVals, MaxArgLen)

ModelRuleSet == SeqsUpTo(ParamVals, MaxRuleLen)

\* A model: the rules under ptype "p" of section p and under ptype "g" of section g.
Models ==
    {[p |-> ps, g |-> gs] : ps \in SeqsUpTo(ModelRuleSet, MaxModelRules),
                           gs \in SeqsUpTo(ModelRuleSet, MaxModelRules)}

BoundedModels == {m \in Models : Len(m.p) + Len(m.g) <= MaxModelRules}

Null == <<>>
Slots == 1..NumSlots

----------------------------------------------------------------------------
(* The rule codec *)

\* v0 || null: the empty string and a missing element both become NULL;
\* elements past the sixth are dropped by the destructuring.
OrNull(rule, i) ==
    IF i <= Len(rule) /\ rule[i] # EmptyStr THEN <<rule[i]>> ELSE Null

buildRule(ptype, rule) ==
    [ptype |-> ptype, v |-> [i \in Slots |-> OrNull(rule, i)]]

\* line.vi is assigned only when rule.length > i; a column never assigned is
\* NULL in the inserted row.
savePolicyLine(ptype, rule) ==
    [ptype |-> ptype,
     v |-> [i \in Slots |-> IF Len(rule) >= i THEN <<rule[i]>> ELSE Null]]

Encode(im, ptype, rule) ==
    IF im = "tx" THEN buildRule(ptype, rule) ELSE savePolicyLine(ptype, rule)

\* filter(n => n): NULL and the empty string are both falsy.
Truthy(val) == val # Null /\ val[1] # EmptyStr

RECURSIVE PresentFrom(_, _)
PresentFrom(v, i) ==
    IF i > NumSlots THEN <<>>
    ELSE IF Truthy(v[i]) THEN <<v[i][1]>> \o PresentFrom(v, i + 1)
    ELSE PresentFrom(v, i + 1)

Sep == <<",", " ">>

RECURSIVE Join(_, _)
Join(strs, sep) ==
    IF strs = <<>> THEN <<>>
    ELSE IF Len(strs) = 1 THEN strs[1]
    ELSE strs[1] \o sep \o Join(Tail(strs), sep)

\* line.ptype + ', ' + [v0..v5].filter(n => n).join(', ')
LineText(rec) == rec.ptype \o Sep \o Join(PresentFrom(rec.v, 1), Sep)

RECURSIVE SplitAcc(_, _, _)
SplitAcc(text, cur, ch) ==
    IF text = <<>> THEN <<cur>>
    ELSE IF Head(text) = ch THEN <<cur>> \o SplitAcc(Tail(text), <<>>, ch)
    ELSE SplitAcc(Tail(text), Append(cur, Head(text)), ch)

Split(text, ch) == SplitAcc(text, <<>>, ch)

RECURSIVE TrimLeft(_)
TrimLeft(s) == IF s # <<>> /\ Head(s) = " " THEN TrimLeft(Tail(s)) ELSE s

RECURSIVE TrimRight(_)
TrimRight(s) ==
    IF s # <<>> /\ s[Len(s)] = " " THEN TrimRight(SubSeq(s, 1, Len(s) - 1)) ELSE s

Trim(s) == TrimLeft(TrimRight(s))

\* Helper.loadPolicyLine of the policy engine: the line is split at commas,
\* each token trimmed; the first token is the ptype, the rest the rule, which
\* is pushed when the model defines that ptype.
Tokens(text) == [i \in 1..Len(Split(text, ",")) |-> Trim(Split(text, ",")[i])]

loadPolicyLine(rec) ==
    LET toks == Tokens(LineText(rec))
    IN  [ptype |-> toks[1], rule |-> Tail(toks)]

\* What loadPolicy puts into a fresh model that defines the ptypes of Ptypes:
\* one rule per row, in the order findAll returns them, which nothing fixes.
Loaded(rows) ==
    BagOfAll(loadPolicyLine, [r \in {x \in BagToSet(rows) : loadPolicyLine(x).ptype \in Ptypes} |-> rows[r]])

----------------------------------------------------------------------------
(* The table *)

\* A where clause: the ptype and, for each column in keys, the value the
\* column must have (a Null there is IS NULL).
WhereAll(line) == [ptype |-> line.ptype, keys |-> Slots, v |-> line.v]

WherePlainKeys(line) ==
    [ptype |-> line.ptype, keys |-> {i \in Slots : line.v[i] # Null}, v |-> line.v]

Matches(rec, where) ==
    /\ rec.ptype = where.ptype
    /\ \A i \in where.keys : rec.v[i] = where.v[i]

Matching(rows, where) ==
    [r \in {x \in BagToSet(rows) : Matches(x, where)} |-> rows[r]]

\* A destroy that stops at the first matching row (DELETE ... LIMIT 1).
DestroyedOne(rows, where) ==
    IF BagToSet(Matching(rows, where)) = {} THEN EmptyBag
    ELSE SetToBag({CHOOSE r \in BagToSet(Matching(rows, where)) : TRUE})

\* DELETE FROM casbin_rules WHERE ...: every matching row goes.
DestroyedRows(rows, where) == Matching(rows, where)

Destroy(rows, where) == rows (-) DestroyedRows(rows, where)

Insert(rows, line) == rows (+) SetToBag({line})

RECURSIVE SeqToBag(_)
SeqToBag(s) == IF s = <<>> THEN EmptyBag ELSE SetToBag({Head(s)}) (+) SeqToBag(Tail(s))

Rows(im) == {Encode(im, pt, r) : pt \in Ptypes, r \in Rules}

\* The tables a sequence of at most n addPolicy calls leaves.
TablesUpTo(im, n) == {SeqToBag(s) : s \in SeqsUpTo(Rows(im), n)}

----------------------------------------------------------------------------
(* The state after construction *)

NoOp == [name |-> "none", ptype |-> PtypeP, rule |-> <<>>, fieldIndex |-> 0,
         ok |-> TRUE, repeat |-> FALSE, prevDeleted |-> 0, life |-> "open"]

NoLine == [ptype |-> PtypeP, v |-> [i \in Slots |-> Null]]

NoRule == [ptype |-> PtypeP, rule |-> <<>>]

NoSnap == [valid |-> FALSE, before |-> EmptyBag]

NotObserved == [valid |-> FALSE, phase |-> "idle", result |-> "none", rules |-> EmptyBag]

NoModel == [p |-> <<>>, g |-> <<>>]

\* No codec run is followed.
InitCodecIdle ==
    /\ cPc = "idle"
    /\ cIn = NoRule
    /\ cRec = NoLine
    /\ cOut = NoRule

\* No second caller runs savePolicy.
InitRaceIdle ==
    /\ sv2Pc = "idle"
    /\ sv2Model = NoModel
    /\ sv2Lines = <<>>
    /\ sv2Result = "none"
    /\ tx2State = "none"
    /\ tx2Work = EmptyBag

\* The adapter that newAdapter (part_000) or init (adapter.ts) returned, on a
\* connection the caller supplied.
InitOpen ==
    /\ life = "open"
    /\ option = "instance"
    /\ isOwnSequelizeInstance = FALSE
    /\ connOpen = TRUE
    /\ modelInit = TRUE

InitCalls ==
    /\ impl \in Impls
    /\ lastOp = NoOp
    /\ prev = EmptyBag
    /\ lastDeleted = 0
    /\ addSnap = NoSnap
    /\ svPc = "idle"
    /\ svModel = NoModel
    /\ svLines = <<>>
    /\ svResult = "none"
    /\ txState = "none"
    /\ txWork = EmptyBag
    /\ old = EmptyBag
    /\ observed = NotObserved

InitRest == InitCalls /\ InitOpen /\ InitCodecIdle /\ InitRaceIdle

\* A new database: the table is empty.
Init == InitRest /\ store = EmptyBag

saveVars == <<svPc, svModel, svLines, svResult, txState, txWork, old, observed>>

----------------------------------------------------------------------------
(* addPolicy, removePolicy, removeFilteredPolicy: one statement each *)

\* repeat: the call is a removePolicy that follows a removePolicy with the same
\* arguments; prevDeleted: the rows that earlier call deleted.
SameAsLast(name, ptype, rule) ==
    /\ name = "removePolicy"
    /\ lastOp.name = "removePolicy"
    /\ lastOp.ptype = ptype
    /\ lastOp.rule = rule

Call(name, ptype, rule, fieldIndex, ok) ==
    [name |-> name, ptype |-> ptype, rule |-> rule, fieldIndex |-> fieldIndex, ok |-> ok,
     life |-> life,
     repeat |-> SameAsLast(name, ptype, rule),
     prevDeleted |-> IF SameAsLast(name, ptype, rule) THEN lastDeleted ELSE 0]

\* Sequelize runs a statement of CasbinRule when the model has been initialised
\* on a connection that is open; otherwise it rejects the call. No method of
\* the adapter looks at the calls made before.
Usable == connOpen /\ modelInit

\* The adapter object exists: part_000 needs the constructor, the class of
\* adapter.ts has none of its own.
Constructed == impl = "tx" \/ life # "new"

\* const line = buildRule(ptype, rule); await line.save()
addPolicy(ptype, rule) ==
    /\ Constructed
    /\ BagCardinality(store) < MaxStore
    /\ store' = IF Usable THEN Insert(store, Encode(impl, ptype, rule)) ELSE store
    /\ prev' = store
    /\ lastOp' = Call("addPolicy", ptype, rule, 0, Usable)
    /\ lastDeleted' = 0
    /\ addSnap' = [valid |-> TRUE, before |-> store]
    /\ UNCHANGED <<impl, saveVars, lifeVars, codecVars, raceVars>>

\* tx: where is the plain object of buildRule, all of ptype, v0..v5, id deleted;
\* perRow: where holds the keys of the line that were assigned, id left out.
RemoveWhere(im, ptype, rule) ==
    IF im = "tx" THEN WhereAll(buildRule(ptype, rule))
    ELSE WherePlainKeys(savePolicyLine(ptype, rule))

removePolicy(ptype, rule) ==
    LET where == RemoveWhere(impl, ptype, rule)
    IN  /\ Constructed
        /\ store' = IF Usable THEN Destroy(store, where) ELSE store
        /\ prev' = store
        /\ lastOp' = Call("removePolicy", ptype, rule, 0, Usable)
        /\ lastDeleted' = IF Usable THEN BagCardinality(DestroyedRows(store, where)) ELSE 0
        /\ addSnap' = IF /\ lastOp.name = "addPolicy"
                         /\ lastOp.ptype = ptype
                         /\ lastOp.rule = rule
                      THEN addSnap ELSE NoSnap
        /\ UNCHANGED <<impl, saveVars, lifeVars, codecVars, raceVars>>

FieldIndexes == {0, 1}

\* A removeFilteredPolicy with an empty body: it resolves and does nothing.
removeFilteredSilent == FALSE

\* throw new Error('not implemented'): the call is rejected, no statement is sent.
removeFilteredThrows == TRUE

removeFilteredPolicy(ptype, fieldIndex, fieldValues) ==
    /\ Constructed
    /\ store' = store
    /\ prev' = store
    /\ lastOp' = Call("removeFilteredPolicy", ptype, fieldValues, fieldIndex,
                      ~removeFilteredThrows)
    /\ lastDeleted' = 0
    /\ addSnap' = NoSnap
    /\ UNCHANGED <<impl, saveVars, lifeVars, codecVars, raceVars>>

Next ==
    \/ \E pt \in Ptypes, r \in Rules : addPolicy(pt, r)
    \/ \E pt \in Ptypes, r \in Rules : removePolicy(pt, r)
    \/ \E pt \in Ptypes, fi \in FieldIndexes, fv \in Rules : removeFilteredPolicy(pt, fi, fv)

Spec == Init /\ [][Next]_vars

----------------------------------------------------------------------------
(* savePolicy and a loadPolicy of another caller *)

\* The two loops over model.model.get('p') and model.model.get('g'), in order.
ModelLines(m) ==
    [i \in 1..(Len(m.p) + Len(m.g)) |->
        IF i <= Len(m.p) THEN [ptype |-> PtypeP, rule |-> m.p[i]]
        ELSE [ptype |-> PtypeG, rule |-> m.g[i - Len(m.p)]]]

\* lines.push(buildRule(ptype, rule)) for every rule of the model
BuiltLines(m) ==
    SeqToBag([i \in 1..Len(ModelLines(m)) |->
                 buildRule(ModelLines(m)[i].ptype, ModelLines(m)[i].rule)])

\* A table of a database in use: rows that addPolicy calls have left.
InitSave == InitRest /\ store \in TablesUpTo(impl, MaxOld)

crudUnchanged ==
    UNCHANGED <<impl, lastOp, prev, lastDeleted, addSnap, lifeVars, codecVars, raceVars>>

\* tx: const tx = await this.sequelize.transaction(), outside the try
txBegin(m, ok) ==
    /\ impl = "tx" /\ svPc = "idle"
    /\ svModel' = m
    /\ old' = store
    /\ IF ok
       THEN /\ svPc' = "try"
            /\ txState' = "open"
            /\ txWork' = store
            /\ svResult' = svResult
       ELSE /\ svPc' = "done"
            /\ svResult' = "error"
            /\ UNCHANGED <<txState, txWork>>
    /\ UNCHANGED <<store, svLines, observed>>
    /\ crudUnchanged

\* catch (ex) { tx.rollback(); throw ex; }: the rollback is started and not awaited
txCatch ==
    /\ txState' = "rollingBack"
    /\ svResult' = "error"
    /\ svPc' = "done"
    /\ UNCHANGED txWork

\* tx: await CasbinRule.destroy({where: {}, truncate: true, transaction: tx})
txDestroy(ok) ==
    /\ impl = "tx" /\ svPc = "try"
    /\ IF ok
       THEN /\ txWork' = EmptyBag
            /\ svPc' = "destroyed"
            /\ UNCHANGED <<txState, svResult>>
       ELSE txCatch
    /\ UNCHANGED <<store, svModel, svLines, old, observed>>
    /\ crudUnchanged

\* tx: await CasbinRule.bulkCreate(lines, {transaction: tx}); tx.commit(); return true
\* The commit is started and not awaited.
txBulkCreate(ok) ==
    /\ impl = "tx" /\ svPc = "destroyed"
    /\ IF ok
       THEN /\ txWork' = txWork (+) BuiltLines(svModel)
            /\ txState' = "committing"
            /\ svResult' = "true"
            /\ svPc' = "done"
       ELSE txCatch
    /\ UNCHANGED <<store, svModel, svLines, old, observed>>
    /\ crudUnchanged

\* The database ends the commit that tx.commit() started: the rows of the
\* transaction replace the committed ones, or the commit is rejected and
\* nothing handles the rejection.
txCommitEnds(ok) ==
    /\ txState = "committing"
    /\ IF ok
       THEN store' = txWork /\ txState' = "committed"
       ELSE store' = store /\ txState' = "commitFailed"
    /\ UNCHANGED <<svPc, svModel, svLines, svResult, txWork, old, observed>>
    /\ crudUnchanged

\* The database ends the rollback that tx.rollback() started.
txRollbackEnds ==
    /\ txState = "rollingBack"
    /\ txState' = "rolledBack"
    /\ UNCHANGED <<store, svPc, svModel, svLines, svResult, txWork, old, observed>>
    /\ crudUnchanged

\* perRow: await this.truncateTable(), in no transaction; with no rule to
\* save the loops are empty and true is returned.
rowTruncate(m, ok) ==
    /\ impl = "perRow" /\ svPc = "idle"
    /\ svModel' = m
    /\ old' = store
    /\ IF ok
       THEN /\ store' = EmptyBag
            /\ svLines' = ModelLines(m)
            /\ svPc' = IF ModelLines(m) = <<>> THEN "done" ELSE "saving"
            /\ svResult' = IF ModelLines(m) = <<>> THEN "true" ELSE svResult
       ELSE /\ store' = store
            /\ svLines' = svLines
            /\ svPc' = "done"
            /\ svResult' = "error"
    /\ UNCHANGED <<txState, txWork, observed>>
    /\ crudUnchanged

\* perRow: const line = this.savePolicyLine(ptype, rule); await line.save();
\* after the last rule, return true.
rowSave(ok) ==
    /\ impl = "perRow" /\ svPc = "saving"
    /\ IF ok
       THEN /\ store' = Insert(store, savePolicyLine(Head(svLines).ptype, Head(svLines).rule))
            /\ svLines' = Tail(svLines)
            /\ svPc' = IF Tail(svLines) = <<>> THEN "done" ELSE "saving"
            /\ svResult' = IF Tail(svLines) = <<>> THEN "true" ELSE svResult
       ELSE /\ store' = store
            /\ svLines' = svLines
            /\ svPc' = "done"
            /\ svResult' = "error"
    /\ UNCHANGED <<svModel, txState, txWork, old, observed>>
    /\ crudUnchanged

\* Another caller: const lines = await CasbinRule.findAll(), in no
\* transaction, then loadPolicyLine for each line into a fresh model.
loadPolicy ==
    /\ observed' = [valid |-> TRUE, phase |-> svPc, result |-> svResult,
                    rules |-> Loaded(store)]
    /\ UNCHANGED <<store, svPc, svModel, svLines, svResult, txState, txWork, old>>
    /\ crudUnchanged

NextSave ==
    \/ \E m \in BoundedModels, ok \in BOOLEAN : txBegin(m, ok)
    \/ \E ok \in BOOLEAN : txDestroy(ok)
    \/ \E ok \in BOOLEAN : txBulkCreate(ok)
    \/ \E ok \in BOOLEAN : txCommitEnds(ok)
    \/ txRollbackEnds
    \/ \E m \in BoundedModels, ok \in BOOLEAN : rowTruncate(m, ok)
    \/ \E ok \in BOOLEAN : rowSave(ok)
    \/ loadPolicy

SpecSave == InitSave /\ [][NextSave]_vars

----------------------------------------------------------------------------
(* Construction, open and close *)

Options == {"options", "instance"}

\* A constructor that takes every connection for its own.
OwnsAlways(opt) == TRUE

\* option instanceof Sequelize.Sequelize: the adapter owns the connection it
\* made from connection options, not the one it was handed.
OwnsConnection(opt) == opt = "options"

\* part_000: new SequelizeAdapter(option)
construct(opt) ==
    /\ impl = "perRow" /\ life = "new"
    /\ life' = "unopened"
    /\ option' = opt
    /\ isOwnSequelizeInstance' = OwnsConnection(opt)
    /\ connOpen' = TRUE
    /\ UNCHANGED <<modelInit, impl, store, lastOp, prev, lastDeleted, addSnap, saveVars,
                   codecVars, raceVars>>

\* part_000: the private open() that newAdapter awaits: initModel(this.sequelize)
open ==
    /\ impl = "perRow" /\ life = "unopened"
    /\ life' = "open"
    /\ modelInit' = TRUE
    /\ UNCHANGED <<option, isOwnSequelizeInstance, connOpen, impl, store, lastOp, prev,
                   lastDeleted, addSnap, saveVars, codecVars, raceVars>>

\* adapter.ts: init(sequelize), on the connection the caller hands in
init ==
    /\ impl = "tx" /\ life = "new"
    /\ life' = "open"
    /\ option' = "instance"
    /\ connOpen' = TRUE
    /\ modelInit' = TRUE
    /\ UNCHANGED <<isOwnSequelizeInstance, impl, store, lastOp, prev, lastDeleted, addSnap,
                   saveVars, codecVars, raceVars>>

\* part_000: close(): if (this.isOwnSequelizeInstance) await this.sequelize.close()
close ==
    /\ impl = "perRow" /\ life \in {"unopened", "open", "closed"}
    /\ life' = "closed"
    /\ connOpen' = IF isOwnSequelizeInstance THEN FALSE ELSE connOpen
    /\ UNCHANGED <<option, isOwnSequelizeInstance, modelInit, impl, store, lastOp, prev,
                   lastDeleted, addSnap, saveVars, codecVars, raceVars>>

\* No adapter has been constructed; the table is empty.
InitLife ==
    /\ InitCalls /\ InitCodecIdle /\ InitRaceIdle
    /\ store = EmptyBag
    /\ life = "new"
    /\ option = "none"
    /\ isOwnSequelizeInstance = FALSE
    /\ connOpen = FALSE
    /\ modelInit = FALSE

NextLife ==
    \/ \E opt \in Options : construct(opt)
    \/ open
    \/ init
    \/ close
    \/ \E pt \in Ptypes, r \in Rules : addPolicy(pt, r)
    \/ \E pt \in Ptypes, r \in Rules : removePolicy(pt, r)
    \/ \E pt \in Ptypes, fi \in FieldIndexes, fv \in Rules : removeFilteredPolicy(pt, fi, fv)

SpecLife == InitLife /\ [][NextLife]_vars

----------------------------------------------------------------------------
(* One rule through the codec: built, saved, loaded back *)

CodecRules == SeqsUpTo(ParamVals, MaxCodecLen)

\* Neither buildRule nor savePolicyLine looks at rule.length before it builds
\* the line: no rule is rejected.
EncodeRejects(im, rule) == FALSE

\* The adapter is open on an empty table; any ptype and rule may come.
InitCodec ==
    /\ InitCalls /\ InitOpen /\ InitRaceIdle
    /\ store = EmptyBag
    /\ cPc = "input"
    /\ cIn \in [ptype : Ptypes, rule : CodecRules]
    /\ cRec = NoLine
    /\ cOut = NoRule

codecUnchanged ==
    UNCHANGED <<impl, lastOp, prev, lastDeleted, addSnap, saveVars, lifeVars, raceVars>>

\* addPolicy, first half: const line = buildRule(ptype, rule)
codecBuild ==
    /\ cPc = "input"
    /\ IF EncodeRejects(impl, cIn.rule)
       THEN cPc' = "rejected" /\ cRec' = cRec
       ELSE cPc' = "encoded" /\ cRec' = Encode(impl, cIn.ptype, cIn.rule)
    /\ UNCHANGED <<store, cIn, cOut>>
    /\ codecUnchanged

\* addPolicy, second half: await line.save()
codecSave ==
    /\ cPc = "encoded"
    /\ cPc' = "saved"
    /\ store' = Insert(store, cRec)
    /\ UNCHANGED <<cIn, cRec, cOut>>
    /\ codecUnchanged

\* loadPolicy: findAll returns the one row, loadPolicyLine decodes it
codecLoad ==
    /\ cPc = "saved"
    /\ cPc' = "decoded"
    /\ cOut' = loadPolicyLine(CHOOSE r \in BagToSet(store) : TRUE)
    /\ UNCHANGED <<store, cIn, cRec>>
    /\ codecUnchanged

NextCodec ==
    \/ codecBuild
    \/ codecSave
    \/ codecLoad

SpecCodec == InitCodec /\ [][NextCodec]_vars

----------------------------------------------------------------------------
(* Two callers run savePolicy on the same table *)

RaceModels == {m \in BoundedModels : Len(m.p) + Len(m.g) <= MaxRaceRules}

InitRace == InitRest /\ store = EmptyBag

raceUnchanged ==
    UNCHANGED <<impl, lastOp, prev, lastDeleted, addSnap, saveVars, lifeVars, codecVars>>

\* tx, second caller: const tx = await this.sequelize.transaction()
tx2Begin(m, ok) ==
    /\ impl = "tx" /\ sv2Pc = "idle"
    /\ sv2Model' = m
    /\ IF ok
       THEN /\ sv2Pc' = "try"
            /\ tx2State' = "open"
            /\ tx2Work' = store
            /\ sv2Result' = sv2Result
       ELSE /\ sv2Pc' = "done"
            /\ sv2Result' = "error"
            /\ UNCHANGED <<tx2State, tx2Work>>
    /\ UNCHANGED <<store, sv2Lines>>
    /\ raceUnchanged

\* tx, second caller: catch (ex) { tx.rollback(); throw ex; }
tx2Catch ==
    /\ tx2State' = "rollingBack"
    /\ sv2Result' = "error"
    /\ sv2Pc' = "done"
    /\ UNCHANGED tx2Work

\* tx, second caller: await CasbinRule.destroy({where: {}, truncate: true, transaction: tx})
tx2Destroy(ok) ==
    /\ impl = "tx" /\ sv2Pc = "try"
    /\ IF ok
       THEN /\ tx2Work' = EmptyBag
            /\ sv2Pc' = "destroyed"
            /\ UNCHANGED <<tx2State, sv2Result>>
       ELSE tx2Catch
    /\ UNCHANGED <<store, sv2Model, sv2Lines>>
    /\ raceUnchanged

\* tx, second caller: await CasbinRule.bulkCreate(...); tx.commit(); return true
tx2BulkCreate(ok) ==
    /\ impl = "tx" /\ sv2Pc = "destroyed"
    /\ IF ok
       THEN /\ tx2Work' = tx2Work (+) BuiltLines(sv2Model)
            /\ tx2State' = "committing"
            /\ sv2Result' = "true"
            /\ sv2Pc' = "done"
       ELSE tx2Catch
    /\ UNCHANGED <<store, sv2Model, sv2Lines>>
    /\ raceUnchanged

\* The database ends the commit of the second caller's transaction.
tx2CommitEnds(ok) ==
    /\ tx2State = "committing"
    /\ IF ok
       THEN store' = tx2Work /\ tx2State' = "committed"
       ELSE store' = store /\ tx2State' = "commitFailed"
    /\ UNCHANGED <<sv2Pc, sv2Model, sv2Lines, sv2Result, tx2Work>>
    /\ raceUnchanged

\* The database ends the rollback of the second caller's transaction.
tx2RollbackEnds ==
    /\ tx2State = "rollingBack"
    /\ tx2State' = "rolledBack"
    /\ UNCHANGED <<store, sv2Pc, sv2Model, sv2Lines, sv2Result, tx2Work>>
    /\ raceUnchanged

\* perRow, second caller: await this.truncateTable()
row2Truncate(m, ok) ==
    /\ impl = "perRow" /\ sv2Pc = "idle"
    /\ sv2Model' = m
    /\ IF ok
       THEN /\ store' = EmptyBag
            /\ sv2Lines' = ModelLines(m)
            /\ sv2Pc' = IF ModelLines(m) = <<>> THEN "done" ELSE "saving"
            /\ sv2Result' = IF ModelLines(m) = <<>> THEN "true" ELSE sv2Result
       ELSE /\ store' = store
            /\ sv2Lines' = sv2Lines
            /\ sv2Pc' = "done"
            /\ sv2Result' = "error"
    /\ UNCHANGED <<tx2State, tx2Work>>
    /\ raceUnchanged

\* perRow, second caller: await line.save() for the next rule
row2Save(ok) ==
    /\ impl = "perRow" /\ sv2Pc = "saving"
    /\ IF ok
       THEN /\ store' = Insert(store, savePolicyLine(Head(sv2Lines).ptype, Head(sv2Lines).rule))
            /\ sv2Lines' = Tail(sv2Lines)
            /\ sv2Pc' = IF Tail(sv2Lines) = <<>> THEN "done" ELSE "saving"
            /\ sv2Result' = IF Tail(sv2Lines) = <<>> THEN "true" ELSE sv2Result
       ELSE /\ store' = store
            /\ sv2Lines' = sv2Lines
            /\ sv2Pc' = "done"
            /\ sv2Result' = "error"
    /\ UNCHANGED <<sv2Model, tx2State, tx2Work>>
    /\ raceUnchanged

NextRace ==
    \/ \E m \in RaceModels, ok \in BOOLEAN : txBegin(m, ok)
    \/ \E ok \in BOOLEAN : txDestroy(ok)
    \/ \E ok \in BOOLEAN : txBulkCreate(ok)
    \/ \E ok \in BOOLEAN : txCommitEnds(ok)
    \/ txRollbackEnds
    \/ \E m \in RaceModels, ok \in BOOLEAN : rowTruncate(m, ok)
    \/ \E ok \in BOOLEAN : rowSave(ok)
    \/ \E m \in RaceModels, ok \in BOOLEAN : tx2Begin(m, ok)
    \/ \E ok \in BOOLEAN : tx2Destroy(ok)
    \/ \E ok \in BOOLEAN : tx2BulkCreate(ok)
    \/ \E ok \in BOOLEAN : tx2CommitEnds(ok)
    \/ tx2RollbackEnds
    \/ \E m \in RaceModels, ok \in BOOLEAN : row2Truncate(m, ok)
    \/ \E ok \in BOOLEAN : row2Save(ok)

SpecRace == InitRace /\ [][NextRace]_vars

----------------------------------------------------------------------------
(* The vocabulary of the claims *)

\* The row that holds a rule: slot i is the i-th param, the slots past the
\* last param are absent.
RuleRecord(ptype, rule) ==
    [ptype |-> ptype,
     v |-> [i \in Slots |-> IF i <= Len(rule) THEN <<rule[i]>> ELSE Null]]

\* The rules a model holds, each under its ptype.
ModelRules(m) == SeqToBag(ModelLines(m))

\* The row matches the filter: the ptype, and the given values at the slots
\* from fieldIndex on.
FilterMatches(rec, ptype, fieldIndex, fieldValues) ==
    /\ rec.ptype = ptype
    /\ \A k \in 1..Len(fieldValues) :
          /\ fieldIndex + k \in Slots
          /\ rec.v[fieldIndex + k] = <<fieldValues[k]>>

\* The table `after` is `before` without the rows of the set gone.
Removed(before, after, gone) ==
    /\ BagToSet(after) \subseteq BagToSet(before)
    /\ \A rec \in BagToSet(before) :
          CopiesIn(rec, after) = IF rec \in gone THEN 0 ELSE CopiesIn(rec, before)

\* The values of the slots of a row that are present, in slot order.
RECURSIVE PresentValues(_, _)
PresentValues(v, i) ==
    IF i > NumSlots THEN <<>>
    ELSE IF v[i] # Null THEN <<v[i][1]>> \o PresentValues(v, i + 1)
    ELSE PresentValues(v, i + 1)

\* The rows the adapter writes for the rules of a model.
ModelRows(im, m) ==
    SeqToBag([i \in 1..Len(ModelLines(m)) |->
                 Encode(im, ModelLines(m)[i].ptype, ModelLines(m)[i].rule)])

SaveRunning == {"try", "destroyed", "saving"}

----------------------------------------------------------------------------
(* The claims *)

\* C1: once savePolicy(M) has returned success, a loadPolicy into a fresh
\* model yields exactly the rules M held, under the same ptypes, whatever was
\* stored before.
C1_LoadAfterSaveYieldsModel ==
    (observed.valid /\ observed.result = "true")
        => observed.rules = ModelRules(svModel)

\* C2: savePolicy is all-or-nothing: after a savePolicy that failed the table
\* holds the rows it held before the call, and a loadPolicy then returns the
\* rules of before the call.
C2_FailedSaveLeavesStore ==
    /\ svResult = "error" => store = old
    /\ (observed.valid /\ observed.result = "error") => observed.rules = Loaded(old)

\* C3: a loadPolicy of another caller that runs while savePolicy(M) runs on a
\* non-empty table Old observes exactly Old or exactly the rules of M, never
\* the empty table or a part of M.
C3_ConcurrentLoadSeesOldOrNew ==
    (observed.valid /\ observed.phase \in SaveRunning /\ old # EmptyBag)
        => observed.rules \in {Loaded(old), ModelRules(svModel)}

\* C4: savePolicy reports success only after the commit of its transaction
\* has completed, and a failed commit makes savePolicy fail with an error.
C4_SuccessOnlyAfterCommit ==
    impl = "tx" =>
        /\ svResult = "true" => txState = "committed"
        /\ txState = "commitFailed" => svResult = "error"

\* C5: removePolicy(sec, ptype, params) deletes all and only the rows with that
\* ptype whose slots v0..v(n-1) are params and whose slots vn..v5 are absent;
\* every other row stays, a row that params is a strict prefix of included.
C5_RemoveDeletesExactlyTheRule ==
    lastOp.name = "removePolicy"
        => Removed(prev, store, {RuleRecord(lastOp.ptype, lastOp.rule)})

\* C6: with no stored duplicate of r before, addPolicy(s, t, r) followed by
\* removePolicy(s, t, r) leaves the table as it was before the add.
C6_AddThenRemoveRestores ==
    (/\ lastOp.name = "removePolicy"
     /\ addSnap.valid
     /\ ~BagIn(RuleRecord(lastOp.ptype, lastOp.rule), addSnap.before))
        => store = addSnap.before

\* C7: removePolicy called twice in a row with the same arguments succeeds
\* both times; the second call deletes no row and leaves the table as the
\* first call left it.
C7_RemoveTwiceIsIdempotent ==
    /\ lastOp.name = "removePolicy" => lastOp.ok
    /\ (lastOp.name = "removePolicy" /\ lastOp.repeat)
          => (lastDeleted = 0 /\ store = prev)

\* C7 witness: a second removePolicy with the same arguments, after a first
\* one that deleted two duplicates of the rule.
C7_Witness ==
    /\ lastOp.name = "removePolicy"
    /\ lastOp.repeat
    /\ lastOp.prevDeleted = 2

\* C8: addPolicy(sec, ptype, params) inserts exactly one new row, the row that
\* holds (ptype, params), and leaves every other row as it was; it checks for
\* no duplicate.
C8_AddInsertsTheRuleRecord ==
    lastOp.name = "addPolicy"
        => store = prev (+) SetToBag({RuleRecord(lastOp.ptype, lastOp.rule)})

\* C9: removeFilteredPolicy(sec, ptype, fieldIndex, fieldValues...) deletes
\* every row with that ptype whose slots from fieldIndex on are fieldValues,
\* and leaves all other rows.
C9_RemoveFilteredDeletesMatches ==
    lastOp.name = "removeFilteredPolicy"
        => Removed(prev, store,
                   {rec \in BagToSet(prev) :
                       FilterMatches(rec, lastOp.ptype, lastOp.fieldIndex, lastOp.rule)})

\* C10: removeFilteredPolicy never returns success with matching rows left in
\* the table: a call that does not delete them fails with an error and leaves
\* the table as it was.
C10_RemoveFilteredNeverSilent ==
    lastOp.name = "removeFilteredPolicy"
        => /\ lastOp.ok
                => \A rec \in BagToSet(store) :
                      ~FilterMatches(rec, lastOp.ptype, lastOp.fieldIndex, lastOp.rule)
           /\ ~lastOp.ok => store = prev

\* C10 witness: a removeFilteredPolicy that failed with a matching row in the
\* table.
C10_Witness ==
    /\ lastOp.name = "removeFilteredPolicy"
    /\ ~lastOp.ok
    /\ lastOp.rule # <<>>
    /\ \E rec \in BagToSet(store) :
          FilterMatches(rec, lastOp.ptype, lastOp.fieldIndex, lastOp.rule)

\* C11: the lifecycle is Unopened -> Open -> Closed: a call of addPolicy,
\* removePolicy or removeFilteredPolicy made before the adapter was opened or
\* after close() fails and writes nothing to the table.
C11_CallsOutsideOpenFail ==
    (lastOp.name # "none" /\ lastOp.life # "open")
        => (~lastOp.ok /\ store = prev)

\* C12: close() closes the connection if and only if the adapter made it from
\* connection options; a connection the caller supplied is never closed by
\* the adapter.
C12_CloseRespectsOwnership ==
    /\ option = "instance" => connOpen
    /\ life = "closed" => (connOpen <=> option = "instance")

\* C12 witness: an adapter on a supplied connection wrote a row and was then
\* closed; the connection is still open.
C12_Witness ==
    /\ life = "closed"
    /\ option = "instance"
    /\ connOpen
    /\ store # EmptyBag

\* C13: the codec round-trips: for every ptype and every list of 0 to 6
\* params, building the line and loading it back as loadPolicy does yields the
\* same ptype and the same ordered params.
C13_CodecRoundTrips ==
    (cPc = "decoded" /\ Len(cIn.rule) <= NumSlots) => cOut = cIn

\* C14: a rule of more than 6 params is rejected before any I/O, so the table
\* stays as it was; a rule of exactly 6 params is encoded.
C14_ArityRejectedBeforeIO ==
    /\ (cPc # "input" /\ Len(cIn.rule) > NumSlots)
          => (cPc = "rejected" /\ store = EmptyBag)
    /\ (cPc # "input" /\ Len(cIn.rule) = NumSlots) => cPc # "rejected"

\* C15: in every row written from a list p of at most 6 params, slot vN is
\* present exactly when N < len(p), with vN = p[N]; an empty-string param is
\* a present empty string, and no present slot lies above an absent one.
C15_SlotShape ==
    (cPc \in {"saved", "decoded"} /\ Len(cIn.rule) <= NumSlots)
        => \A r \in BagToSet(store) :
              \A i \in Slots :
                 r.v[i] = IF i <= Len(cIn.rule) THEN <<cIn.rule[i]>> ELSE Null

\* C16: on every failing path of savePolicy the rollback of the transaction
\* has completed before the caller has the error: the caller never holds the
\* error while the transaction is open or its rollback pending.
C16_RollbackBeforeError ==
    (impl = "tx" /\ svResult = "error") => txState \in {"none", "rolledBack"}

\* C17: loadPolicy decodes a stored row to its ptype followed by all present
\* slot values among v0..v5 in slot order, skipping holes; it never stops at
\* the first absent slot.
C17_LoadJoinsPresentSlots ==
    cPc = "decoded"
        => \A r \in BagToSet(store) :
              cOut = [ptype |-> r.ptype, rule |-> PresentValues(r.v, 1)]

\* C18: when two callers run savePolicy(M1) and savePolicy(M2) on the same
\* table and both report success, the table ends as exactly the rows of M1 or
\* exactly the rows of M2, never a mixture and never empty when both models
\* hold rules.
C18_LastWriterWins ==
    (/\ svResult = "true" /\ sv2Result = "true"
     /\ txState # "committing" /\ tx2State # "committing")
        => store \in {ModelRows(impl, svModel), ModelRows(impl, sv2Model)}

====
